---------------------------- MODULE Spec2Model ----------------------------
(***************************************************************************)
(* plot_results.py: a straight-line script that derives speedup ratios     *)
(* from a table of (threads, times) measurements and drives matplotlib to  *)
(* plot, annotate and save the chart.                                      *)
(*                                                                         *)
(* Each statement of the script is one action; pc is the line about to be  *)
(* executed.  The chart library is modelled by the calls it receives.      *)
(*                                                                         *)
(* Python floats are binary floating-point numbers: a value is             *)
(* s * m * 2^e with a Prec-bit mantissa m, and every arithmetic result is  *)
(* rounded to the nearest representable value, ties to even.  CPython's    *)
(* float has a 53-bit mantissa; the model keeps the format and the         *)
(* rounding and scales the width down to Prec bits.                        *)
(***************************************************************************)
EXTENDS Integers, Sequences, FiniteSets, TLC

\* Mantissa width of the modelled binary floating-point format.
Prec == 14

\* Longest dataset drawn besides the literal one of the script.
MaxLen == 3

RECURSIVE Pow2(_)
Pow2(n) == IF n = 0 THEN 1 ELSE 2 * Pow2(n - 1)

Abs(n) == IF n < 0 THEN -n ELSE n

Sign(n) == IF n < 0 THEN -1 ELSE IF n = 0 THEN 0 ELSE 1

Min(a, b) == IF a <= b THEN a ELSE b

\* n / d for n >= 0, d > 0, rounded to the nearest integer, ties to even.
RoundHalfEven(n, d) ==
    LET q == n \div d
        r == n % d
    IN  IF 2 * r < d THEN q
        ELSE IF 2 * r > d THEN q + 1
        ELSE IF q % 2 = 0 THEN q ELSE q + 1

\* The mantissas of the format are the integers MantMin .. MantLim - 1.
MantMin == Pow2(Prec - 1)

MantLim == Pow2(Prec)

\* The float 0.0.
FZero == [s |-> 0, m |-> 0, e |-> 0]

\* The float 1.0.
FOne == [s |-> 1, m |-> MantMin, e |-> -(Prec - 1)]

\* The exponent k with MantMin <= (n / d) * 2^(-k) < MantLim, for n, d > 0.
RECURSIVE Expo(_, _, _)
Expo(n, d, k) ==
    IF n < d * MantMin THEN Expo(2 * n, d, k - 1)
    ELSE IF n >= d * MantLim THEN Expo(n, 2 * d, k + 1)
    ELSE k

\* The float nearest to sgn * n / d (n, d > 0): the correctly rounded result
\* of a division and of reading a decimal literal.
FRound(sgn, n, d) ==
    LET k == Expo(n, d, 0)
        q == IF k <= 0 THEN RoundHalfEven(n * Pow2(-k), d)
                       ELSE RoundHalfEven(n, d * Pow2(k))
    IN  IF q = MantLim
        THEN [s |-> sgn, m |-> MantMin, e |-> k + 1]
        ELSE [s |-> sgn, m |-> q, e |-> k]

\* A float literal written as the decimal fraction n / d, d > 0.
Lit(n, d) == IF n = 0 THEN FZero ELSE FRound(Sign(n), Abs(n), d)

\* x / y on floats, y # 0.0: the quotient of the two mantissas, rounded, with
\* the exponents subtracted.
FDiv(x, y) ==
    IF x.m = 0 THEN FZero
    ELSE LET r == FRound(x.s * y.s, x.m, y.m)
         IN  [r EXCEPT !.e = r.e + x.e - y.e]

\* x < y on floats.
FLess(x, y) ==
    LET lo == Min(x.e, y.e)
    IN  x.s * x.m * Pow2(x.e - lo) < y.s * y.m * Pow2(y.e - lo)

\* FormatLabel with the hundredths cut off instead of rounded.
FormatLabelTruncated(y) ==
    LET c == IF y.e >= 0 THEN 100 * y.m * Pow2(y.e)
                         ELSE (100 * y.m) \div Pow2(-y.e)
    IN  (IF y.s < 0 THEN "-" ELSE "") \o ToString(c \div 100) \o "."
            \o ToString((c % 100) \div 10) \o ToString(c % 10) \o "x"

\* f'{y:.2f}x': y rounded to hundredths (ties to even on the exact binary
\* value), printed with a sign, the integer part, a point and two digits,
\* followed by the suffix "x".
FormatLabel(y) ==
    LET c == IF y.e >= 0 THEN 100 * y.m * Pow2(y.e)
                         ELSE RoundHalfEven(100 * y.m, Pow2(-y.e))
    IN  (IF y.s < 0 THEN "-" ELSE "") \o ToString(c \div 100) \o "."
            \o ToString((c % 100) \div 10) \o ToString(c % 10) \o "x"


(***************************************************************************)
(* The program state: the script's global names, the chart as the calls    *)
(* matplotlib.pyplot has received, the file system and the console.        *)
(***************************************************************************)
VARIABLES
    pc,               \* the line about to run, "done", or "raised"
    defined,          \* the global names bound so far
    threads,          \* line 3
    times,            \* line 4
    base_time,        \* line 7
    speedups,         \* line 8
    idx,              \* position of the for loop of line 19 in its zip
    figure,           \* plt.figure calls
    plots,            \* plt.plot calls
    annotations,      \* plt.annotate calls
    texts,            \* plt.title / xlabel / ylabel calls
    xticks,           \* plt.xticks calls
    decorations,      \* plt.grid / plt.legend calls
    output_filename,  \* line 39
    files,            \* the files plt.savefig has finished writing
    stdout,           \* the lines printed
    err               \* the exception that ended the run, "" if none

vars == <<pc, defined, threads, times, base_time, speedups, idx, figure, plots,
          annotations, texts, xticks, decorations, output_filename, files,
          stdout, err>>

chart == <<figure, plots, annotations, texts, xticks, decorations>>

\* The literal data of the script.
SampleThreads == <<1, 2, 4, 8>>

SampleTimes == <<Lit(3283, 100), Lit(1595, 100), Lit(956, 100), Lit(631, 100)>>

\* Worker counts the other datasets are drawn from.
WorkerVals == {1, 2, 4}

\* Elapsed times the other datasets are drawn from: zero, a negative time,
\* and three positive times of which two are neighbouring floats.
TimeVals ==
    {FZero, Lit(-631, 100), Lit(MantLim, 1), Lit(MantLim - 1, 1),
     Lit(MantLim - 2, 1)}

SeqsUpTo(S, n) == UNION {[1..k -> S] : k \in 0..n}

\* Lines 3-4: the dataset, a sequence of (threads, times) pairs held as two
\* lists of the same length.
Init ==
    /\ \/ /\ threads = SampleThreads
          /\ times = SampleTimes
       \/ \E ms \in SeqsUpTo(WorkerVals \X TimeVals, MaxLen) :
            /\ threads = [k \in 1..Len(ms) |-> ms[k][1]]
            /\ times = [k \in 1..Len(ms) |-> ms[k][2]]
    /\ pc = "l7"
    /\ defined = {"threads", "times"}
    /\ base_time = FZero
    /\ speedups = <<>>
    /\ idx = 0
    /\ figure = <<>>
    /\ plots = <<>>
    /\ annotations = <<>>
    /\ texts = <<>>
    /\ xticks = <<>>
    /\ decorations = <<>>
    /\ output_filename = ""
    /\ files = {}
    /\ stdout = <<>>
    /\ err = ""

\* An uncaught exception ends the script.
Raise(e) ==
    /\ pc' = "raised"
    /\ err' = e

\* BaseTime falling back to 0.0 on an empty list instead of raising.
BaseTimeDefault ==
    /\ pc = "l7"
    /\ base_time' = IF Len(times) = 0 THEN FZero ELSE times[1]
    /\ defined' = defined \cup {"base_time"}
    /\ pc' = "l8"
    /\ UNCHANGED <<threads, times, speedups, idx, chart, output_filename,
                   files, stdout, err>>

\* BaseTime taking the last measurement (times[-1]) as the baseline.
BaseTimeLast ==
    /\ pc = "l7"
    /\ IF Len(times) = 0
       THEN /\ Raise("IndexError")
            /\ UNCHANGED <<defined, base_time>>
       ELSE /\ base_time' = times[Len(times)]
            /\ defined' = defined \cup {"base_time"}
            /\ pc' = "l8"
            /\ err' = err
    /\ UNCHANGED <<threads, times, speedups, idx, chart, output_filename,
                   files, stdout>>

\* Line 7: base_time = times[0]; indexing an empty list raises IndexError.
BaseTime ==
    /\ pc = "l7"
    /\ IF Len(times) = 0
       THEN /\ Raise("IndexError")
            /\ UNCHANGED <<defined, base_time>>
       ELSE /\ base_time' = times[1]
            /\ defined' = defined \cup {"base_time"}
            /\ pc' = "l8"
            /\ err' = err
    /\ UNCHANGED <<threads, times, speedups, idx, chart, output_filename,
                   files, stdout>>

\* ComputeSpeedups with the results in reverse order.
ComputeSpeedupsReversed(base, ts) ==
    [k \in 1..Len(ts) |-> FDiv(base, ts[Len(ts) + 1 - k])]

\* ComputeSpeedups with the ratio inverted (t / base_time).
ComputeSpeedupsInverted(base, ts) == [k \in 1..Len(ts) |-> FDiv(ts[k], base)]

\* [base_time / t for t in times]
ComputeSpeedups(base, ts) == [k \in 1..Len(ts) |-> FDiv(base, ts[k])]

\* The elements of ts that are not 0.0, in order.
RECURSIVE NonZero(_)
NonZero(ts) ==
    IF ts = <<>> THEN <<>>
    ELSE IF Head(ts).m = 0 THEN NonZero(Tail(ts))
    ELSE <<Head(ts)>> \o NonZero(Tail(ts))

\* Speedups skipping the zero times ("... for t in times if t != 0") instead
\* of raising.
SpeedupsSkipZero ==
    /\ pc = "l8"
    /\ IF base_time.m = 0
       THEN speedups' = [k \in 1..Len(NonZero(times)) |-> FZero]
       ELSE speedups' = ComputeSpeedups(base_time, NonZero(times))
    /\ defined' = defined \cup {"speedups"}
    /\ pc' = "l10"
    /\ UNCHANGED <<threads, times, base_time, idx, chart, output_filename,
                   files, stdout, err>>

\* Speedups normalising the list in place ("times[:] = ...") and binding
\* speedups to it.
SpeedupsInPlace ==
    /\ pc = "l8"
    /\ IF \E k \in 1..Len(times) : times[k].m = 0
       THEN /\ Raise("ZeroDivisionError")
            /\ UNCHANGED <<defined, speedups, times>>
       ELSE /\ times' = ComputeSpeedups(base_time, times)
            /\ speedups' = times'
            /\ defined' = defined \cup {"speedups"}
            /\ pc' = "l10"
            /\ err' = err
    /\ UNCHANGED <<threads, base_time, idx, chart, output_filename, files,
                   stdout>>

\* Line 8: the comprehension divides by every element in turn; float division
\* by zero raises ZeroDivisionError, and then speedups is never bound.
Speedups ==
    /\ pc = "l8"
    /\ IF \E k \in 1..Len(times) : times[k].m = 0
       THEN /\ Raise("ZeroDivisionError")
            /\ UNCHANGED <<defined, speedups>>
       ELSE /\ speedups' = ComputeSpeedups(base_time, times)
            /\ defined' = defined \cup {"speedups"}
            /\ pc' = "l10"
            /\ err' = err
    /\ UNCHANGED <<threads, times, base_time, idx, chart, output_filename,
                   files, stdout>>

\* Line 10: plt.figure(figsize=(10, 6))
Figure ==
    /\ pc = "l10"
    /\ figure' = Append(figure, [figsize |-> <<10, 6>>])
    /\ pc' = "l13"
    /\ UNCHANGED <<defined, threads, times, base_time, speedups, idx, plots,
                   annotations, texts, xticks, decorations, output_filename,
                   files, stdout, err>>

\* Line 13: plt.plot(threads, threads, 'k--', label='Ideal Linear Speedup')
PlotIdeal ==
    /\ pc = "l13"
    /\ plots' = Append(plots, [x |-> threads, y |-> threads, fmt |-> "k--",
                               label |-> "Ideal Linear Speedup"])
    /\ pc' = "l16"
    /\ UNCHANGED <<defined, threads, times, base_time, speedups, idx, figure,
                   annotations, texts, xticks, decorations, output_filename,
                   files, stdout, err>>

\* Line 16: plt.plot(threads, speedups, marker='o', ..., label='Actual Speedup')
PlotActual ==
    /\ pc = "l16"
    /\ plots' = Append(plots, [x |-> threads, y |-> speedups, fmt |-> "o-",
                               label |-> "Actual Speedup"])
    /\ pc' = "l19"
    /\ idx' = 1
    /\ UNCHANGED <<defined, threads, times, base_time, speedups, figure,
                   annotations, texts, xticks, decorations, output_filename,
                   files, stdout, err>>

\* The call plt.annotate(f'{y:.2f}x', (x, y), ...) of lines 20-26.
Annotation(x, y) == [text |-> FormatLabel(y), xy |-> <<x, y>>]

\* Lines 19-26: one iteration of "for x, y in zip(threads, speedups)"; zip
\* stops at the end of the shorter list.
Annotate ==
    /\ pc = "l19"
    /\ IF idx <= Min(Len(threads), Len(speedups))
       THEN /\ annotations' =
                  Append(annotations, Annotation(threads[idx], speedups[idx]))
            /\ idx' = idx + 1
            /\ pc' = pc
       ELSE /\ pc' = "l29"
            /\ UNCHANGED <<annotations, idx>>
    /\ UNCHANGED <<defined, threads, times, base_time, speedups, figure, plots,
                   texts, xticks, decorations, output_filename, files, stdout,
                   err>>

\* Lines 29-31: plt.title, plt.xlabel, plt.ylabel
Labels ==
    /\ pc = "l29"
    /\ texts' = texts \o <<[call |-> "title",
                            s |-> "Wa-Tor Simulation Parallel Speedup"],
                           [call |-> "xlabel",
                            s |-> "Number of Threads (Workers)"],
                           [call |-> "ylabel", s |-> "Speedup Factor"]>>
    /\ pc' = "l34"
    /\ UNCHANGED <<defined, threads, times, base_time, speedups, idx, figure,
                   plots, annotations, xticks, decorations, output_filename,
                   files, stdout, err>>

\* XTicks with the ticks at the positions 1..n instead of the thread counts
\* ("plt.xticks(range(1, len(threads) + 1))").
XTicksRange ==
    /\ pc = "l34"
    /\ xticks' = Append(xticks, [k \in 1..Len(threads) |-> k])
    /\ pc' = "l35"
    /\ UNCHANGED <<defined, threads, times, base_time, speedups, idx, figure,
                   plots, annotations, texts, decorations, output_filename,
                   files, stdout, err>>

\* Line 34: plt.xticks(threads)
XTicks ==
    /\ pc = "l34"
    /\ xticks' = Append(xticks, threads)
    /\ pc' = "l35"
    /\ UNCHANGED <<defined, threads, times, base_time, speedups, idx, figure,
                   plots, annotations, texts, decorations, output_filename,
                   files, stdout, err>>

\* Lines 35-36: plt.grid(True, linestyle='--', alpha=0.7); plt.legend()
GridLegend ==
    /\ pc = "l35"
    /\ decorations' = decorations \o <<"grid", "legend">>
    /\ pc' = "l39"
    /\ UNCHANGED <<defined, threads, times, base_time, speedups, idx, figure,
                   plots, annotations, texts, xticks, output_filename, files,
                   stdout, err>>

\* Line 39: output_filename = 'results_graph.png'
OutputFilename ==
    /\ pc = "l39"
    /\ output_filename' = "results_graph.png"
    /\ defined' = defined \cup {"output_filename"}
    /\ pc' = "l40"
    /\ UNCHANGED <<threads, times, base_time, speedups, idx, chart, files,
                   stdout, err>>

\* SaveFig with the failure swallowed ("try: ... except OSError: pass").
SaveFigSwallowed ==
    /\ pc = "l40"
    /\ \/ files' = files \cup {output_filename}
       \/ files' = files
    /\ pc' = "l41"
    /\ UNCHANGED <<defined, threads, times, base_time, speedups, idx, chart,
                   output_filename, stdout, err>>

\* Line 40: plt.savefig(output_filename, dpi=300): the file is written, or
\* the write fails (path not writable, disk full) and OSError is raised.
SaveFig ==
    /\ pc = "l40"
    /\ \/ /\ files' = files \cup {output_filename}
          /\ pc' = "l41"
          /\ err' = err
       \/ /\ Raise("OSError")
          /\ files' = files
    /\ UNCHANGED <<defined, threads, times, base_time, speedups, idx, chart,
                   output_filename, stdout>>

\* Line 41: print(f"Success! Graph saved as {output_filename}")
PrintSuccess ==
    /\ pc = "l41"
    /\ stdout' = Append(stdout, "Success! Graph saved as " \o output_filename)
    /\ pc' = "done"
    /\ UNCHANGED <<defined, threads, times, base_time, speedups, idx, chart,
                   output_filename, files, err>>

Next ==
    \/ BaseTime
    \/ Speedups
    \/ Figure
    \/ PlotIdeal
    \/ PlotActual
    \/ Annotate
    \/ Labels
    \/ XTicks
    \/ GridLegend
    \/ OutputFilename
    \/ SaveFig
    \/ PrintSuccess

Spec == Init /\ [][Next]_vars

(***************************************************************************)
(* Properties.                                                             *)
(***************************************************************************)

\* The name speedups is bound: line 8 has completed.
Computed == "speedups" \in defined

IsPositive(t) == t.s = 1

HasZero(ts) == \E k \in 1..Len(ts) : ts[k].m = 0

AllPositive(ts) == \A k \in 1..Len(ts) : IsPositive(ts[k])

StrictlyIncreasing(ws) == \A k \in 1..(Len(ws) - 1) : ws[k] < ws[k + 1]

\* Lines 7 and 8 are behind the run and it was not ended by them.
PastCompute == pc \notin {"l7", "l8", "raised"} \/ err = "OSError"

\* Nothing has been asked of the chart library.
NoChartCall ==
    /\ figure = <<>>
    /\ plots = <<>>
    /\ annotations = <<>>
    /\ texts = <<>>
    /\ xticks = <<>>
    /\ decorations = <<>>

\* C1: for a non-empty dataset whose times are all strictly positive, once
\* lines 7-8 are behind the run, speedups is bound to a list as long as the
\* input whose k-th element is times[0] / times[k] - the input order.
C1_SameLengthSameOrder ==
    (pc \notin {"l7", "l8"} /\ Len(times) > 0 /\ AllPositive(times)) =>
        /\ Computed
        /\ Len(speedups) = Len(times)
        /\ \A k \in 1..Len(times) : speedups[k] = FDiv(times[1], times[k])

\* C1 witness: speedups computed for three positive times, the first and the
\* last results different.
C1_Witness ==
    /\ Computed
    /\ AllPositive(times)
    /\ Len(speedups) = 3
    /\ speedups[1] # speedups[3]

\* C2: with a time of 0.0 anywhere in the dataset the run never gets past
\* line 8: it ends there with ZeroDivisionError, no chart call is made, no
\* file is written and nothing is printed.
C2_ZeroDivisionAborts ==
    (Len(times) > 0 /\ HasZero(times)) =>
        /\ pc \in {"l7", "l8", "raised"}
        /\ pc = "raised" => err = "ZeroDivisionError"
        /\ ~Computed
        /\ NoChartCall
        /\ files = {}
        /\ stdout = <<>>

\* C2 witness: a run ended by ZeroDivisionError whose only zero time is in
\* the middle of three.
C2_Witness ==
    /\ pc = "raised"
    /\ err = "ZeroDivisionError"
    /\ Len(times) = 3
    /\ times[1].m # 0 /\ times[2].m = 0 /\ times[3].m # 0

\* C6: whenever speedups is bound for a dataset with a non-zero first time,
\* its first element is exactly 1.0; a single measurement with a non-zero
\* time yields exactly the list [1.0].
C6_FirstSpeedupIsOne ==
    /\ (Len(times) > 0 /\ times[1].m # 0 /\ Computed) => speedups[1] = FOne
    /\ (Len(times) = 1 /\ times[1].m # 0 /\ pc \notin {"l7", "l8"}) =>
            (Computed /\ speedups = <<FOne>>)

\* C6 witness: speedups computed from a baseline other than 1.0 and a second
\* time different from the baseline.
C6_Witness ==
    /\ Computed
    /\ Len(times) >= 2
    /\ times[1] # FOne
    /\ times[2] # times[1]
    /\ speedups[1] = FOne

\* C3 as stated: an empty dataset, or one whose threads are not strictly
\* increasing (its times all strictly positive), never gets a speedup list
\* bound.
C3_Original ==
    (\/ Len(times) = 0
     \/ ~StrictlyIncreasing(threads) /\ AllPositive(times)) => ~Computed

\* C3 amended: an empty dataset ends the run at line 7 with IndexError and no
\* speedup list is bound; the order of threads is not examined, so every
\* non-empty dataset without a zero time gets its speedups bound at line 8,
\* duplicate or descending threads included.
C3_EmptyRaisesOrderUnchecked ==
    /\ Len(times) = 0 =>
            /\ ~Computed
            /\ pc \in {"l7", "raised"}
            /\ pc = "raised" => err = "IndexError"
    /\ (Len(times) > 0 /\ ~HasZero(times) /\ pc \notin {"l7", "l8"}) => Computed

\* C3 witness: the run on the empty dataset, ended by IndexError.
C3_Witness ==
    /\ Len(times) = 0
    /\ pc = "raised"
    /\ err = "IndexError"
    /\ ~Computed

\* C4: a printed line is the success message naming the output file, and it
\* is printed only with the file written; a run whose savefig raised has
\* ended with nothing printed.
C4_MessageOnlyAfterSave ==
    /\ stdout # <<>> =>
            /\ stdout = <<"Success! Graph saved as results_graph.png">>
            /\ output_filename = "results_graph.png"
            /\ output_filename \in files
    /\ err = "OSError" =>
            /\ pc = "raised"
            /\ stdout = <<>>

\* C4 witness: a finished run with the file written and the message printed.
C4_Witness ==
    /\ pc = "done"
    /\ files = {"results_graph.png"}
    /\ Len(stdout) = 1

\* The xticks call has been made.
TicksSet == pc \in {"l35", "l39", "l40", "l41", "done"} \/ err = "OSError"

\* C5: on the literal data [(1, 32.83), (2, 15.95), (4, 9.56), (8, 6.31)],
\* once the ticks are set there are exactly four annotations, at x = 1, 2, 4,
\* 8, reading "1.00x", "2.06x", "3.43x", "5.20x", and the one xticks call set
\* the ticks 1, 2, 4, 8.
C5_SampleLabelsAndTicks ==
    (/\ threads = <<1, 2, 4, 8>>
     /\ times = <<Lit(3283, 100), Lit(1595, 100), Lit(956, 100), Lit(631, 100)>>
     /\ TicksSet) =>
        /\ [k \in 1..Len(annotations) |-> annotations[k].text]
              = <<"1.00x", "2.06x", "3.43x", "5.20x">>
        /\ [k \in 1..Len(annotations) |-> annotations[k].xy[1]] = <<1, 2, 4, 8>>
        /\ xticks = << <<1, 2, 4, 8>> >>

\* C5 witness: the finished run on the literal data, four points annotated.
C5_Witness ==
    /\ pc = "done"
    /\ threads = <<1, 2, 4, 8>>
    /\ times[1] = Lit(3283, 100)
    /\ Len(annotations) = 4

\* C7 as stated, on a well-formed dataset (strictly increasing threads):
\* among strictly positive times, a strictly smaller time has a strictly
\* greater speedup.
C7_Original ==
    (Computed /\ AllPositive(times) /\ StrictlyIncreasing(threads)) =>
        \A a, b \in 1..Len(times) :
            FLess(times[a], times[b]) => FLess(speedups[b], speedups[a])

\* C7 amended: among strictly positive times, a strictly smaller time has a
\* speedup that is greater or equal (never smaller): two different times can
\* round to the same quotient.
C7_SpeedupNonIncreasing ==
    (Computed /\ AllPositive(times)) =>
        \A a, b \in 1..Len(times) :
            FLess(times[a], times[b]) => ~FLess(speedups[a], speedups[b])

\* C7 witness: positive times, one strictly smaller than another with the
\* same speedup, and one strictly smaller than another with a greater one.
C7_Witness ==
    /\ Computed
    /\ AllPositive(times)
    /\ \E a, b \in 1..Len(times) :
            FLess(times[a], times[b]) /\ speedups[a] = speedups[b]
    /\ \E a, b \in 1..Len(times) :
            FLess(times[a], times[b]) /\ FLess(speedups[b], speedups[a])

\* The dataset is empty, or its threads are not strictly increasing, or one
\* of its times is zero or negative.
Malformed ==
    \/ Len(times) = 0
    \/ ~StrictlyIncreasing(threads)
    \/ \E k \in 1..Len(times) : ~IsPositive(times[k])

\* C8 as stated: on a malformed dataset no chart call is made and nothing is
\* saved.
C8_Original == Malformed => (NoChartCall /\ files = {})

\* C8 amended: an empty dataset (IndexError) or one with a zero time
\* (ZeroDivisionError) ends the run before any chart call or save; threads
\* out of order and negative times are not detected: such a dataset, when
\* non-empty and free of zeros, proceeds to plt.figure and the rendering.
C8_AbortsOnlyOnEmptyOrZero ==
    /\ (Len(times) = 0 \/ HasZero(times)) =>
            /\ NoChartCall
            /\ files = {}
            /\ pc \in {"l7", "l8", "raised"}
            /\ pc = "raised" => err \in {"IndexError", "ZeroDivisionError"}
    /\ (Len(times) > 0 /\ ~HasZero(times) /\ pc \notin {"l7", "l8", "l10"}) =>
            /\ Len(figure) = 1
            /\ err \notin {"IndexError", "ZeroDivisionError"}

\* C8 witness: a run on descending threads with a zero time, ended by the
\* division with no chart call made.
C8_Witness ==
    /\ threads = <<2, 1>>
    /\ HasZero(times)
    /\ pc = "raised"
    /\ err = "ZeroDivisionError"
    /\ NoChartCall

\* text reads the hundredths c (c >= 0) of a value of sign sgn, followed by "x".
ShowsCents(text, sgn, c) ==
    text = (IF sgn < 0 THEN "-" ELSE "") \o ToString(c \div 100) \o "."
               \o ToString((c % 100) \div 10) \o ToString(c % 10) \o "x"

\* text shows |y| to two decimals: some c hundredths at most half a
\* hundredth away from |y| = m * 2^e (e < 0 for every quotient here).
TwoDecimalsOf(text, y) ==
    LET d == Pow2(-y.e)
        q == (100 * y.m) \div d
    IN  \E c \in {q, q + 1} :
            /\ 2 * Abs(100 * y.m - c * d) <= d
            /\ ShowsCents(text, y.s, c)

\* C9: once the ticks are set, a dataset of n measurements has exactly n
\* annotations, the k-th anchored at (threads[k], speedups[k]) and showing
\* speedups[k] to two decimals followed by "x"; the ticks are the threads of
\* the input; and while the loop runs, one annotation per point passed.
C9_AnnotationsAndTicks ==
    /\ pc = "l19" =>
            /\ Len(annotations) = idx - 1
            /\ \A k \in 1..Len(annotations) :
                    annotations[k].xy = <<threads[k], speedups[k]>>
    /\ TicksSet =>
            /\ Len(annotations) = Len(threads)
            /\ \A k \in 1..Len(threads) :
                    /\ annotations[k].xy = <<threads[k], speedups[k]>>
                    /\ speedups[k].e < 0
                    /\ TwoDecimalsOf(annotations[k].text, speedups[k])
                    /\ \E j \in 1..Len(threads) :
                            annotations[k].xy[1] = threads[j]
            /\ xticks = <<threads>>

\* C9 witness: ticks set for three points with different threads and speedups.
C9_Witness ==
    /\ TicksSet
    /\ Len(annotations) = 3
    /\ threads[1] # threads[2]
    /\ speedups[1] # speedups[2]
    /\ annotations[2].text # annotations[1].text

\* C10: no step changes threads or times, and once speedups is bound no step
\* changes it and computing the speedups again from the dataset gives the
\* same list.
C10_InputUnchangedRecomputeEqual ==
    [][/\ threads' = threads
       /\ times' = times
       /\ Computed => speedups' = speedups
       /\ Computed' => speedups' = ComputeSpeedups(times'[1], times')]_vars

\* C10 witness: a finished run on two measurements whose speedups differ
\* from the times they were computed from.
C10_Witness ==
    /\ pc = "done"
    /\ Computed
    /\ Len(times) = 2
    /\ speedups # times

=============================================================================
